---------------------------- MODULE Spec2Model ----------------------------
(***************************************************************************)
(* Deutsch-Jozsa "race": an Oracle with a call counter, the classical      *)
(* brute-force solver, the quantum solver and run_race, modelled from      *)
(* "Deutsch-Jozsa Algorithm.py" (src/unnamed/part_000).                    *)
(*                                                                         *)
(* Bit strings ('0101') are sequences over {0,1}; Python index x[k] is     *)
(* element k+1.  A quantum state is an integer amplitude vector `amp`      *)
(* together with `h`, the number of Hadamard gates applied: the real       *)
(* amplitude of basis label b is amp[b] / sqrt(2^h), so that every         *)
(* probability is the exact rational (amp[b]^2) / 2^h.  Qubit k is bit k   *)
(* of the basis label.                                                     *)
(***************************************************************************)
EXTENDS Integers, Sequences, FiniteSets, TLC

\* Largest number of input bits n handed to Oracle / the solvers.
MaxN == 4
\* Direct calls (query_classical, get_quantum_circuit, solve_*) are made on
\* the caller's oracle only while its call_count is below MaxPre.
MaxPre == 2
\* A caller composes a retrieved oracle circuit at most MaxCompose times.
MaxCompose == 2

VARIABLES
    oracle,     \* the Oracle objects: "client" (a caller's own), and run_race's oracle_c, oracle_q
    pc,         \* position of the single thread of control
    caller,     \* who called the running solver: "client" or "run_race"
    cur,        \* the oracle the running solver was handed
    sc,         \* solve_classical's frame
    sq,         \* solve_quantum's frame
    res,        \* the value the last solver call returned
    race,       \* run_race's frame
    ret,        \* the outcome of the last direct Oracle method call
    error       \* the exception that ended the program, if any

vars == <<oracle, pc, caller, cur, sc, sq, res, race, ret, error>>

Slots == {"client", "oracle_c", "oracle_q"}
\* oracle_type values: the two the code tests for, and one it does not know.
Kinds == {"balanced", "constant", "other"}
Ns == 0..MaxN
NoOracle == [n |-> -1, type |-> "none", call_count |-> -1]
NoFrame == [n |-> -1]
NoRace == [n |-> -1, oracle_type |-> "none", res_c |-> "none", res_q |-> "none",
           classical_queries |-> -1, quantum_queries |-> -1]
NoRet == [op |-> "none"]
IndexError == -1

RECURSIVE Pow2(_)
Pow2(k) == IF k <= 0 THEN 1 ELSE 2 * Pow2(k - 1)

Bits == {0, 1}
Xor(a, b) == IF a = b THEN 0 ELSE 1

RECURSIVE BitStrings(_)
BitStrings(len) ==
    IF len = 0 THEN {<<>>}
    ELSE {Append(s, b) : s \in BitStrings(len - 1), b \in Bits}

\* The input strings a caller may pass to query_classical: every length from
\* 0 to MaxN + 1, so shorter than, equal to and longer than any n.
Inputs == UNION {BitStrings(len) : len \in 0..(MaxN + 1)}

-----------------------------------------------------------------------------
(* Oracle *)

\* Oracle.__init__: no argument is validated.
NewOracleObj(n, oracle_type) == [n |-> n, type |-> oracle_type, call_count |-> 0]

\* self.call_count += 1, with one increment too many.
CountCallTwice(o) == [o EXCEPT !.call_count = @ + 2]

\* self.call_count += 1
CountCall(o) == [o EXCEPT !.call_count = @ + 1]

\* hidden_function reading the same bit twice.
hidden_function_same_bit(oracle_type, x) ==
    IF oracle_type = "balanced"
    THEN IF Len(x) < 2 THEN IndexError ELSE Xor(x[1], x[1])
    ELSE 0

\* lambda x: (int(x[0]) ^ int(x[1])) if oracle_type == 'balanced' else 0
\* x[1] of a string shorter than 2 raises IndexError.
hidden_function(oracle_type, x) ==
    IF oracle_type = "balanced"
    THEN IF Len(x) < 2 THEN IndexError ELSE Xor(x[1], x[2])
    ELSE 0

-----------------------------------------------------------------------------
(* solve_classical helpers *)

RECURSIVE Bin(_)
\* Python's binary digits of i >= 0, most significant first ('0' for 0).
Bin(i) == IF i < 2 THEN <<i>> ELSE Append(Bin(i \div 2), i % 2)

RECURSIVE Zeros(_)
Zeros(k) == IF k <= 0 THEN <<>> ELSE <<0>> \o Zeros(k - 1)

\* format with the digits least significant first.
FormatReversed(i, n) ==
    LET s == Zeros(n - Len(Bin(i))) \o Bin(i)
    IN  [k \in 1..Len(s) |-> s[Len(s) + 1 - k]]

\* format(i, f'0{n}b'): zero-padded on the left to width n, never truncated.
Format(i, n) == Zeros(n - Len(Bin(i))) \o Bin(i)

\* the limit test with > for >=.
AtLimitStrict(call_count, n) == 2 * call_count > Pow2(n) + 2

\* oracle.call_count >= limit, limit = 2**(n-1) + 1.  Both sides are doubled:
\* for n = 0 Python's 2**(-1) is the float 0.5.
AtLimit(call_count, n) == 2 * call_count >= Pow2(n) + 2

\* len(results) > 1 and results[-1] != results[0]
Differs(results) == Len(results) > 1 /\ results[Len(results)] /= results[1]

-----------------------------------------------------------------------------
(* Circuits.  An instruction is [g, q, t]: gate name, qubit, and for cx the *)
(* target (t = q for the one-qubit gates).                                  *)

GateX(q) == [g |-> "x", q |-> q, t |-> q]
GateH(q) == [g |-> "h", q |-> q, t |-> q]
GateCX(c, t) == [g |-> "cx", q |-> c, t |-> t]
GateMeasure(q, c) == [g |-> "measure", q |-> q, t |-> c]
CircuitError == <<[g |-> "CircuitError", q |-> -1, t |-> -1]>>

\* A cx whose control and target coincide, or that names a qubit the circuit
\* does not have, is rejected by QuantumCircuit.cx.
BadCX(inst, nqubits) ==
    inst.q = inst.t \/ inst.q >= nqubits \/ inst.t >= nqubits

\* the balanced oracle with its second CNOT taken from qubit 0 again.
OracleGatesSameControl(n, type) ==
    IF type = "balanced"
    THEN IF n < 1 THEN CircuitError ELSE <<GateCX(0, n), GateCX(0, n)>>
    ELSE <<>>

\* get_quantum_circuit's circuit on n + 1 qubits: cx(0, n); cx(1, n) when
\* self.type == 'balanced', nothing otherwise.
OracleGates(n, type) ==
    IF type = "balanced"
    THEN LET gates == <<GateCX(0, n), GateCX(1, n)>>
         IN  IF \E k \in 1..Len(gates) : BadCX(gates[k], n + 1)
             THEN CircuitError
             ELSE gates
    ELSE <<>>

\* for i in range(n): qc.h(i)
HLayer(n) == [k \in 1..n |-> GateH(k - 1)]

\* qc.x(n); qc.h(n); for i in range(n): qc.h(i)
Superposition(n) == <<GateX(n), GateH(n)>> \o HLayer(n)

\* qc.measure(range(n), range(n))
MeasureAll(n) == [k \in 1..n |-> GateMeasure(k - 1, k - 1)]

-----------------------------------------------------------------------------
(* Ideal state-vector simulation of a circuit (AerSimulator without noise) *)

BitOf(b, k) == (b \div Pow2(k)) % 2
Flip(b, k) == IF BitOf(b, k) = 0 THEN b + Pow2(k) ELSE b - Pow2(k)

\* The same sequence, as an explicit tuple of its elements.
Tuple(s) == SubSeq(s, 1, Len(s))

\* |0...0> on nqubits qubits
ZeroState(nqubits) ==
    [amp |-> Tuple([j \in 1..Pow2(nqubits) |-> IF j = 1 THEN 1 ELSE 0]), h |-> 0]

ApplyX(st, q) ==
    [st EXCEPT !.amp = Tuple([j \in 1..Len(st.amp) |-> st.amp[Flip(j - 1, q) + 1]])]

\* a Hadamard that has lost the minus sign of its |1> row.
ApplyHNoSign(st, q) ==
    [amp |-> Tuple([j \in 1..Len(st.amp) |->
                 st.amp[j] + st.amp[Flip(j - 1, q) + 1]]),
     h |-> st.h + 1]

\* H = [[1, 1], [1, -1]] / sqrt(2) on qubit q; the 1/sqrt(2) is counted in h.
ApplyH(st, q) ==
    [amp |-> Tuple([j \in 1..Len(st.amp) |->
                 IF BitOf(j - 1, q) = 0
                 THEN st.amp[j] + st.amp[Flip(j - 1, q) + 1]
                 ELSE st.amp[Flip(j - 1, q) + 1] - st.amp[j]]),
     h |-> st.h + 1]

ApplyCX(st, c, t) ==
    [st EXCEPT !.amp = Tuple([j \in 1..Len(st.amp) |->
                           IF BitOf(j - 1, c) = 1
                           THEN st.amp[Flip(j - 1, t) + 1]
                           ELSE st.amp[j]])]

\* Measurements come last in the circuit; sampling is done by Outcomes.
ApplyGate(st, inst) ==
    CASE inst.g = "x" -> ApplyX(st, inst.q)
      [] inst.g = "h" -> ApplyH(st, inst.q)
      [] inst.g = "cx" -> ApplyCX(st, inst.q, inst.t)
      [] OTHER -> st

RECURSIVE StateAfter(_, _, _)
\* The state after the first k instructions of circuit qc.
StateAfter(qc, k, nqubits) ==
    IF k = 0 THEN ZeroState(nqubits)
    ELSE ApplyGate(StateAfter(qc, k - 1, nqubits), qc[k])

RECURSIVE SumSq(_, _)
SumSq(amp, k) == IF k = 0 THEN 0 ELSE amp[k] * amp[k] + SumSq(amp, k - 1)

\* Probability (times 2^h) that input qubits 0..n-1 read pattern p, the
\* ancilla (qubit n) summed out.
ProbNum(st, n, p) ==
    st.amp[p + 1] * st.amp[p + 1]
        + st.amp[p + Pow2(n) + 1] * st.amp[p + Pow2(n) + 1]

\* The patterns one shot can return.
Outcomes(st, n) == {p \in 0..(Pow2(n) - 1) : ProbNum(st, n, p) > 0}

\* The counts key for pattern p: classical bit n-1 is the leftmost character.
BitString(p, n) == [k \in 1..n |-> BitOf(p, n - k)]

\* if '1' in measured_state: 'balanced' else 'constant'
Verdict(measured_state) ==
    IF \E k \in 1..Len(measured_state) : measured_state[k] = 1
    THEN "balanced" ELSE "constant"

-----------------------------------------------------------------------------
(* The program *)

NoState == [amp |-> <<>>, h |-> -1]

Init ==
    /\ oracle = [s \in Slots |-> NoOracle]
    /\ pc = "idle"
    /\ caller = "client"
    /\ cur = "client"
    /\ sc = NoFrame
    /\ sq = NoFrame
    /\ res = "none"
    /\ race = NoRace
    /\ ret = NoRet
    /\ error = "none"

\* Control is with the caller of the module's functions: nothing is running.
AtTop ==
    \/ pc \in {"idle", "api_ret", "race_done"}
    \/ pc \in {"sc_ret", "sq_ret"} /\ caller = "client"

\* run_race's locals oracle_c and oracle_q are gone once it has returned.
DropLocals(os) ==
    [os EXCEPT !["oracle_c"] = NoOracle, !["oracle_q"] = NoOracle]

\* An uncaught exception ends the program.
Raise(e) ==
    /\ pc' = "crashed"
    /\ error' = e

\* Frame of solve_classical(n, oracle) on entry (lines 44-45).
ClassicalFrame(o) ==
    [n |-> o.n, i |-> 0, results |-> <<>>, inputs |-> <<>>,
     entry |-> o.call_count]

\* Frame of solve_quantum(n, oracle) after steps 1 and 2 (lines 69-75).
QuantumFrame(o) ==
    [n |-> o.n, qc |-> Superposition(o.n), oracle_gate |-> <<>>,
     statevector |-> NoState, measured_state |-> <<>>,
     entry |-> o.call_count]

\* Oracle(n, oracle_type)
NewOracle(n, oracle_type) ==
    /\ AtTop
    /\ oracle' = [DropLocals(oracle) EXCEPT !["client"] = NewOracleObj(n, oracle_type)]
    /\ pc' = "idle"
    /\ caller' = "client"
    /\ cur' = "client"
    /\ sc' = NoFrame
    /\ sq' = NoFrame
    /\ res' = "none"
    /\ race' = NoRace
    /\ ret' = NoRet
    /\ UNCHANGED error

\* oracle.query_classical(input_str), called directly
QueryClassical(input_str) ==
    /\ AtTop
    /\ oracle["client"] /= NoOracle
    /\ oracle["client"].call_count < MaxPre
    /\ LET o == CountCall(oracle["client"])
           v == hidden_function(o.type, input_str)
       IN  /\ oracle' = [DropLocals(oracle) EXCEPT !["client"] = o]
           /\ ret' = [op |-> "query_classical", input |-> input_str, value |-> v]
           /\ IF v = IndexError
              THEN Raise("IndexError")
              ELSE pc' = "api_ret" /\ UNCHANGED error
    /\ caller' = "client"
    /\ cur' = "client"
    /\ sc' = NoFrame
    /\ sq' = NoFrame
    /\ res' = "none"
    /\ race' = NoRace

\* oracle.get_quantum_circuit(), called directly
GetQuantumCircuit ==
    /\ AtTop
    /\ oracle["client"] /= NoOracle
    /\ oracle["client"].call_count < MaxPre
    /\ LET o == CountCall(oracle["client"])
           g == OracleGates(o.n, o.type)
       IN  /\ oracle' = [DropLocals(oracle) EXCEPT !["client"] = o]
           /\ ret' = [op |-> "get_quantum_circuit", gate |-> g,
                      qc |-> <<>>, composed |-> 0]
           /\ IF g = CircuitError
              THEN Raise("CircuitError")
              ELSE pc' = "api_ret" /\ UNCHANGED error
    /\ caller' = "client"
    /\ cur' = "client"
    /\ sc' = NoFrame
    /\ sq' = NoFrame
    /\ res' = "none"
    /\ race' = NoRace

\* qc.compose(oracle_gate, inplace=True) on a circuit of the caller's, with
\* the gate a direct get_quantum_circuit() returned
ComposeRetrieved ==
    /\ pc = "api_ret"
    /\ ret.op = "get_quantum_circuit"
    /\ ret.composed < MaxCompose
    /\ ret' = [ret EXCEPT !.qc = @ \o ret.gate, !.composed = @ + 1]
    /\ UNCHANGED <<oracle, pc, caller, cur, sc, sq, res, race, error>>

\* solve_classical(oracle.n, oracle), called directly
SolveClassical ==
    /\ AtTop
    /\ oracle["client"] /= NoOracle
    /\ oracle["client"].call_count <= MaxPre
    /\ oracle' = DropLocals(oracle)
    /\ sc' = ClassicalFrame(oracle["client"])
    /\ pc' = "sc_loop"
    /\ caller' = "client"
    /\ cur' = "client"
    /\ sq' = NoFrame
    /\ res' = "none"
    /\ race' = NoRace
    /\ ret' = NoRet
    /\ UNCHANGED error

\* One iteration of solve_classical's for loop (lines 47-60).
SC_Iter ==
    /\ pc = "sc_loop"
    /\ sc.i < Pow2(sc.n)
    /\ LET input_str == Format(sc.i, sc.n)
           o == CountCall(oracle[cur])
           output == hidden_function(o.type, input_str)
           results == Append(sc.results, output)
           inputs == Append(sc.inputs, input_str)
       IN  /\ oracle' = [oracle EXCEPT ![cur] = o]
           /\ IF output = IndexError
              THEN /\ Raise("IndexError")
                   /\ sc' = [sc EXCEPT !.inputs = inputs]
                   /\ UNCHANGED res
              ELSE /\ UNCHANGED error
                   /\ IF Differs(results)
                      THEN /\ res' = "balanced"
                           /\ pc' = "sc_ret"
                           /\ sc' = [sc EXCEPT !.results = results, !.inputs = inputs]
                      ELSE IF AtLimit(o.call_count, sc.n)
                      THEN /\ res' = "constant"
                           /\ pc' = "sc_ret"
                           /\ sc' = [sc EXCEPT !.results = results, !.inputs = inputs]
                      ELSE /\ UNCHANGED <<res, pc>>
                           /\ sc' = [sc EXCEPT !.results = results, !.inputs = inputs,
                                                !.i = @ + 1]
    /\ UNCHANGED <<caller, cur, sq, race, ret>>

\* The loop ran through range(2**n) without returning (line 62).
SC_Exhausted ==
    /\ pc = "sc_loop"
    /\ sc.i >= Pow2(sc.n)
    /\ res' = "constant"
    /\ pc' = "sc_ret"
    /\ UNCHANGED <<oracle, caller, cur, sc, sq, race, ret, error>>

\* solve_quantum(oracle.n, oracle), called directly: steps 1 and 2
SolveQuantum ==
    /\ AtTop
    /\ oracle["client"] /= NoOracle
    /\ oracle["client"].call_count <= MaxPre
    /\ oracle' = DropLocals(oracle)
    /\ sq' = QuantumFrame(oracle["client"])
    /\ pc' = "sq_oracle"
    /\ caller' = "client"
    /\ cur' = "client"
    /\ sc' = NoFrame
    /\ res' = "none"
    /\ race' = NoRace
    /\ ret' = NoRet
    /\ UNCHANGED error

\* Step 3, line 78: oracle_gate = oracle.get_quantum_circuit()
SQ_GetOracle ==
    /\ pc = "sq_oracle"
    /\ LET o == CountCall(oracle[cur])
           g == OracleGates(o.n, o.type)
       IN  /\ oracle' = [oracle EXCEPT ![cur] = o]
           /\ IF g = CircuitError
              THEN Raise("CircuitError") /\ UNCHANGED sq
              ELSE /\ pc' = "sq_compose"
                   /\ sq' = [sq EXCEPT !.oracle_gate = g]
                   /\ UNCHANGED error
    /\ UNCHANGED <<caller, cur, sc, res, race, ret>>

\* Step 3, line 79: qc.compose(oracle_gate, inplace=True)
SQ_Compose ==
    /\ pc = "sq_compose"
    /\ sq' = [sq EXCEPT !.qc = @ \o sq.oracle_gate]
    /\ pc' = "sq_interfere"
    /\ UNCHANGED <<oracle, caller, cur, sc, res, race, ret, error>>

\* Step 4, lines 82-83
SQ_Interfere ==
    /\ pc = "sq_interfere"
    /\ sq' = [sq EXCEPT !.qc = @ \o HLayer(sq.n)]
    /\ pc' = "sq_measure"
    /\ UNCHANGED <<oracle, caller, cur, sc, res, race, ret, error>>

\* Step 5, line 86
SQ_Measure ==
    /\ pc = "sq_measure"
    /\ sq' = [sq EXCEPT !.qc = @ \o MeasureAll(sq.n)]
    /\ pc' = "sq_run"
    /\ UNCHANGED <<oracle, caller, cur, sc, res, race, ret, error>>

\* Step 6, lines 90-94: one shot of the ideal simulator.  With n = 0 the
\* circuit has no classical bits and measures nothing: what get_counts()
\* then gives (an error, or the empty key) is the library's choice.
SQ_Run ==
    /\ pc = "sq_run"
    /\ LET st == StateAfter(sq.qc, Len(sq.qc), sq.n + 1)
       IN  \/ /\ \E p \in Outcomes(st, sq.n) :
                    sq' = [sq EXCEPT !.statevector = st,
                                     !.measured_state = BitString(p, sq.n)]
              /\ pc' = "sq_decide"
              /\ UNCHANGED error
           \/ /\ sq.n = 0
              /\ sq' = [sq EXCEPT !.statevector = st]
              /\ Raise("QiskitError")
    /\ UNCHANGED <<oracle, caller, cur, sc, res, race, ret>>

\* Lines 98-101
SQ_Decide ==
    /\ pc = "sq_decide"
    /\ res' = Verdict(sq.measured_state)
    /\ pc' = "sq_ret"
    /\ UNCHANGED <<oracle, caller, cur, sc, sq, race, ret, error>>

\* run_race(n, oracle_type), lines 105-112: two fresh oracles, then the call
\* of solve_classical(n, oracle_c)
RunRace(n, oracle_type) ==
    /\ AtTop
    /\ oracle' = [oracle EXCEPT !["oracle_c"] = NewOracleObj(n, oracle_type),
                                !["oracle_q"] = NewOracleObj(n, oracle_type)]
    /\ race' = [NoRace EXCEPT !.n = n, !.oracle_type = oracle_type]
    /\ sc' = ClassicalFrame(NewOracleObj(n, oracle_type))
    /\ pc' = "sc_loop"
    /\ caller' = "run_race"
    /\ cur' = "oracle_c"
    /\ sq' = NoFrame
    /\ res' = "none"
    /\ ret' = NoRet
    /\ UNCHANGED error

\* Line 112's assignment of res_c, and line 115's call of
\* solve_quantum(n, oracle_q)
RaceQuantum ==
    /\ pc = "sc_ret"
    /\ caller = "run_race"
    /\ race' = [race EXCEPT !.res_c = res]
    /\ sq' = QuantumFrame(oracle["oracle_q"])
    /\ pc' = "sq_oracle"
    /\ cur' = "oracle_q"
    /\ UNCHANGED <<oracle, caller, sc, res, ret, error>>

\* Line 115's assignment of res_q, and the scoreboard (lines 118-122): the
\* two call counts are printed whatever the verdicts were.
Scoreboard ==
    /\ pc = "sq_ret"
    /\ caller = "run_race"
    /\ race' = [race EXCEPT !.res_q = res,
                            !.classical_queries = oracle["oracle_c"].call_count,
                            !.quantum_queries = oracle["oracle_q"].call_count]
    /\ pc' = "race_done"
    /\ UNCHANGED <<oracle, caller, cur, sc, sq, res, ret, error>>

Next ==
    \/ \E n \in Ns, t \in Kinds : NewOracle(n, t)
    \/ \E x \in Inputs : QueryClassical(x)
    \/ GetQuantumCircuit
    \/ ComposeRetrieved
    \/ SolveClassical
    \/ SC_Iter
    \/ SC_Exhausted
    \/ SolveQuantum
    \/ SQ_GetOracle
    \/ SQ_Compose
    \/ SQ_Interfere
    \/ SQ_Measure
    \/ SQ_Run
    \/ SQ_Decide
    \/ \E n \in Ns, t \in Kinds : RunRace(n, t)
    \/ RaceQuantum
    \/ Scoreboard

Spec == Init /\ [][Next]_vars

-----------------------------------------------------------------------------
(* Properties *)

Recognized == {"balanced", "constant"}

\* The running solver was handed an oracle with call_count = 0, n >= 2 and
\* a recognized kind.
FreshValid(frame) ==
    /\ frame.n >= 2
    /\ frame.entry = 0
    /\ oracle[cur].n = frame.n
    /\ oracle[cur].type \in Recognized

\* C1: solve_quantum on a fresh oracle (n >= 2, constant or balanced) leaves
\* call_count at exactly 1 and returns the oracle's kind; no pattern the
\* single shot can produce gives the other verdict.
C1_QuantumOneQueryRightVerdict ==
    /\ (pc = "sq_decide" /\ FreshValid(sq)) =>
          ((\E k \in 1..Len(sq.measured_state) : sq.measured_state[k] = 1)
              <=> oracle[cur].type = "balanced")
    /\ (pc = "sq_ret" /\ FreshValid(sq)) =>
          /\ oracle[cur].call_count = 1
          /\ res = oracle[cur].type

C1_Witness ==
    /\ pc = "sq_ret"
    /\ FreshValid(sq)
    /\ sq.n = 4
    /\ oracle[cur].type = "balanced"
    /\ res = "balanced"
    /\ oracle[cur].call_count = 1

\* C2: solve_classical on a fresh constant oracle with n >= 2 returns
\* 'constant' with call_count = 2^(n-1) + 1.
C2_ClassicalConstantExact ==
    (pc = "sc_ret" /\ FreshValid(sc) /\ oracle[cur].type = "constant") =>
        /\ res = "constant"
        /\ oracle[cur].call_count = Pow2(sc.n - 1) + 1

C2_Witness ==
    /\ pc = "sc_ret"
    /\ FreshValid(sc)
    /\ sc.n = 4
    /\ oracle[cur].type = "constant"
    /\ res = "constant"
    /\ oracle[cur].call_count = 9

\* C3: solve_classical on a fresh balanced oracle with n >= 2 returns
\* 'balanced'; and during any classical solve with n >= 2, whatever the kind
\* and the call_count at entry, the queries made so far never exceed
\* 2^(n-1) + 1.
C3_ClassicalBalancedAndBound ==
    /\ (pc = "sc_ret" /\ FreshValid(sc) /\ oracle[cur].type = "balanced") =>
          res = "balanced"
    /\ (pc \in {"sc_loop", "sc_ret"} /\ sc.n >= 2) =>
          /\ Len(sc.inputs) = oracle[cur].call_count - sc.entry
          /\ Len(sc.inputs) <= Pow2(sc.n - 1) + 1

C3_Witness ==
    /\ pc = "sc_ret"
    /\ FreshValid(sc)
    /\ sc.n = 4
    /\ oracle[cur].type = "balanced"
    /\ res = "balanced"
    /\ Len(sc.inputs) = 5

\* C4: no oracle with n < 2 or an unrecognized kind ever exists
\* (construction is claimed to fail with InvalidConfigError).
C4_NoInvalidOracle ==
    \A s \in Slots :
        oracle[s] /= NoOracle =>
            oracle[s].n >= 2 /\ oracle[s].type \in Recognized

\* C5: a direct query_classical whose input length differs from the
\* oracle's n fails (with InvalidInputError) instead of returning a bit:
\* whenever the call has returned a bit, the input had length n (stated for
\* oracles with n >= 2 and a recognized kind).
C5_WrongLengthRejected ==
    (/\ pc = "api_ret"
     /\ ret.op = "query_classical"
     /\ oracle["client"].n >= 2
     /\ oracle["client"].type \in Recognized) =>
        Len(ret.input) = oracle["client"].n

\* A step that makes one logical query of oracle s.
CountingStep(s) ==
    \/ /\ s = "client"
       /\ \/ \E x \in Inputs : QueryClassical(x)
          \/ GetQuantumCircuit
    \/ /\ s = cur
       /\ \/ SC_Iter
          \/ SQ_GetOracle

\* A step that puts a newly constructed Oracle in slot s.
Constructs(s) ==
    \/ s = "client" /\ \E n \in Ns, t \in Kinds : NewOracle(n, t)
    \/ s /= "client" /\ \E n \in Ns, t \in Kinds : RunRace(n, t)

\* C6: an oracle's call_count starts at 0, grows by exactly 1 on each
\* classical query and each get_quantum_circuit, and is changed by no other
\* step (composing or simulating a retrieved circuit included); n and type
\* never change.
C6_CallCountDiscipline ==
    [][\A s \in Slots :
          /\ (Constructs(s) /\ oracle'[s] /= NoOracle) => oracle'[s].call_count = 0
          /\ (oracle[s] = NoOracle /\ oracle'[s] /= NoOracle) => Constructs(s)
          /\ (oracle[s] /= NoOracle /\ oracle'[s] /= NoOracle /\ ~Constructs(s)) =>
                /\ oracle'[s].n = oracle[s].n
                /\ oracle'[s].type = oracle[s].type
                /\ oracle'[s].call_count =
                      IF CountingStep(s)
                      THEN oracle[s].call_count + 1
                      ELSE oracle[s].call_count]_vars

C6_Witness ==
    /\ pc = "api_ret"
    /\ ret.op = "get_quantum_circuit"
    /\ ret.composed = 2
    /\ Len(ret.qc) = 4
    /\ oracle["client"].call_count = 2

\* C7: run_race never reaches its scoreboard while a verdict differs from
\* the configured kind (stated for n >= 2).
C7_RaceSurfacesWrongVerdict ==
    (pc = "race_done" /\ race.n >= 2) =>
        race.res_c = race.oracle_type /\ race.res_q = race.oracle_type

RECURSIVE BinValue(_)
\* The number a most-significant-first bit string denotes.
BinValue(s) ==
    IF Len(s) = 0 THEN 0
    ELSE 2 * BinValue(SubSeq(s, 1, Len(s) - 1)) + s[Len(s)]

\* C8: the classical solver's k-th query is the n-bit encoding of k - 1; it
\* returns 'balanced' at the first output that differs from an earlier one
\* and queries no more; for n = 2 and a fresh balanced oracle it queries
\* "00", "01" and stops with call_count = 2.
C8_ClassicalQueryOrder ==
    (pc \in {"sc_loop", "sc_ret"} /\ sc.n >= 1) =>
        /\ \A k \in 1..Len(sc.inputs) :
              Len(sc.inputs[k]) = sc.n /\ BinValue(sc.inputs[k]) = k - 1
        /\ \A k \in 1..(Len(sc.results) - 1) : sc.results[k] = sc.results[1]
        /\ (pc = "sc_ret" /\ res = "balanced")
              <=> (\E k \in 1..Len(sc.results) : sc.results[k] /= sc.results[1])
        /\ (pc = "sc_ret" /\ sc.n = 2 /\ sc.entry = 0 /\ oracle[cur].type = "balanced") =>
              /\ sc.inputs = << <<0, 0>>, <<0, 1>> >>
              /\ oracle[cur].call_count = 2

C8_Witness ==
    /\ pc = "sc_ret"
    /\ sc.n = 2
    /\ sc.entry = 0
    /\ oracle[cur].type = "balanced"
    /\ res = "balanced"
    /\ sc.inputs = << <<0, 0>>, <<0, 1>> >>

RECURSIVE NormalizedFrom(_, _, _)
\* Every state from st on, through instructions k.. of qc, has squared
\* magnitudes summing to 1 (amplitudes are scaled by sqrt(2^h)).
NormalizedFrom(qc, k, st) ==
    /\ SumSq(st.amp, Len(st.amp)) = Pow2(st.h)
    /\ \/ k > Len(qc)
       \/ LET next == ApplyGate(st, qc[k])
          IN  NormalizedFrom(qc, k + 1, next)

\* C9: for n >= 2 the state is normalized after every instruction of the
\* quantum solver's circuit, and the final distribution over the 2^n input
\* patterns is a point mass: on pattern 0 for a constant oracle, on exactly
\* one non-zero pattern for a balanced one.
C9_PointMass ==
    (sq /= NoFrame /\ sq.n >= 2 /\ oracle[cur].type \in Recognized) =>
        /\ NormalizedFrom(sq.qc, 1, ZeroState(sq.n + 1))
        /\ sq.statevector /= NoState =>
              LET st == sq.statevector
                  one == Pow2(st.h)
                  sure == {p \in 0..(Pow2(sq.n) - 1) : ProbNum(st, sq.n, p) = one}
              IN  /\ st = StateAfter(sq.qc, Len(Superposition(sq.n))
                                             + Len(sq.oracle_gate) + sq.n, sq.n + 1)
                  /\ Cardinality(sure) = 1
                  /\ \A p \in 0..(Pow2(sq.n) - 1) :
                        p \notin sure => ProbNum(st, sq.n, p) = 0
                  /\ oracle[cur].type = "constant" => sure = {0}
                  /\ oracle[cur].type = "balanced" => 0 \notin sure

C9_Witness ==
    /\ pc = "sq_decide"
    /\ sq.n = 4
    /\ oracle[cur].type = "balanced"
    /\ ProbNum(sq.statevector, sq.n, 3) = Pow2(sq.statevector.h)
    /\ ProbNum(sq.statevector, sq.n, 0) = 0

RECURSIVE ClassicalRun(_, _, _, _, _)
\* solve_classical run to its return from loop index i: the verdict and the
\* oracle's call_count at that point (lines 47-62).
ClassicalRun(n, type, i, results, call_count) ==
    IF i >= Pow2(n) THEN [verdict |-> "constant", call_count |-> call_count]
    ELSE LET output == hidden_function(type, Format(i, n))
             rs == Append(results, output)
         IN  IF output = IndexError
             THEN [verdict |-> "IndexError", call_count |-> call_count + 1]
             ELSE IF Differs(rs)
             THEN [verdict |-> "balanced", call_count |-> call_count + 1]
             ELSE IF AtLimit(call_count + 1, n)
             THEN [verdict |-> "constant", call_count |-> call_count + 1]
             ELSE ClassicalRun(n, type, i + 1, rs, call_count + 1)

\* C10: whatever call_count the oracle has at entry, solve_classical
\* returns the verdict, and adds the number of queries, that it does on a
\* fresh oracle of the same n and kind.
C10_EntryCountIrrelevant ==
    (pc = "sc_ret" /\ sc.n >= 2 /\ oracle[cur].type \in Recognized) =>
        LET fresh == ClassicalRun(sc.n, oracle[cur].type, 0, <<>>, 0)
        IN  /\ res = fresh.verdict
            /\ oracle[cur].call_count - sc.entry = fresh.call_count

====
